---- MODULE Spec2Model ----
(***************************************************************************)
(* Model of static_analysis_bot/revisions.py: the Revision record          *)
(* (analyze_patch, contains, add_improvement_patch) and the Phabricator    *)
(* stack loader (PhabricatorRevision.load / apply) driving a Mercurial     *)
(* working copy.                                                           *)
(*                                                                         *)
(* Identifiers are tagged pairs so that values of different kinds never    *)
(* compare equal: <<"PHID-DIFF", n>>, <<"PHID-DREV", n>>, <<"hg", n>>.     *)
(***************************************************************************)
EXTENDS Integers, Sequences, FiniteSets, TLC

\* ---------------------------------------------------------------- bounds
\* Longest parent list the review service returns.
MaxParents == 3
\* Most diffs one parent revision has.
MaxDiffs == 2
\* Largest line number a parsed diff mentions.
MaxLine == 2
\* Longest span (nb_lines) of an issue.
MaxSpan == 2
\* Most improvement patches recorded on one revision.
MaxPatches == 2

\* ------------------------------------------------------------ identifiers
\* Python's None.
None == <<"None">>
\* hg_base = 'central' (revisions.py:252)
central == <<"hg", 0>>
\* An hg changeset present in the working copy's repository, and one absent.
KnownRev(n) == <<"hg", 2 * n>>
MissingRev(n) == <<"hg", 2 * n + 1>>

\* Parent revisions the review service knows (PHID-DREV-1, PHID-DREV-2).
ParentRevs == {<<"PHID-DREV", 1>>, <<"PHID-DREV", 2>>}
TargetRev == <<"PHID-DREV", 9>>
TargetDiffId == 90

DiffPhid(id) == <<"PHID-DIFF", id>>

\* Diff ids are global in the review service: parent n owns ids n, n+2, n+4, ...
DiffIdsOf(rev) == {rev[2] + 2 * (k - 1) : k \in 1..MaxDiffs}

\* The baseRevision field the service holds for a parent diff: absent, unknown
\* to the repository, or known, depending on the diff.
BaseOfDiff(id) ==
    CASE id % 3 = 0 -> MissingRev(id)
      [] id % 3 = 1 -> KnownRev(id)
      [] OTHER      -> None

\* A diff record as returned by search_diffs.
DiffRecord(rev, id) ==
    [id |-> id, phid |-> DiffPhid(id), revisionPHID |-> rev,
     baseRevision |-> BaseOfDiff(id)]

\* The revision record the service returns for a revision phid (load_revision).
load_revision(phid) == [id |-> phid[2], phid |-> phid]

\* Raw patch text the service holds for a diff id (load_raw_diff).
RawDiff(id) == <<"raw", id>>

\* ---------------------------------------------------------------- helpers
Range(s) == {s[i] : i \in 1..Len(s)}

RECURSIVE SeqsUpTo(_, _)
\* All sequences over S of length at most n.
SeqsUpTo(S, n) ==
    IF n = 0 THEN {<<>>}
    ELSE LET shorter == SeqsUpTo(S, n - 1)
         IN  shorter \cup {Append(s, x) : s \in shorter, x \in S}

\* All orderings (without repetition) of every subset of S.
Orderings(S) ==
    {s \in SeqsUpTo(S, Cardinality(S)) : \A i, j \in 1..Len(s) : i # j => s[i] # s[j]}

Reverse(s) == [i \in 1..Len(s) |-> s[Len(s) + 1 - i]]

\* ------------------------------------------------------------------ state
VARIABLES
    tenants,     \* the revision objects driven in this run
    api,         \* what the review service answers: parents, diffs per revision
    hg,          \* the working copy: the revision checked out, the patches on top
    calls,       \* every call made on the review service and the working copy
    diff,        \* self.diff: the target diff record of each revision object
    revision,    \* self.revision: what load_revision returned to the constructor
    pc,          \* position of each revision object in load
    parents,     \* load's local: parents
    patches,     \* load's local: the OrderedDict patches, as <<[key, val]>>
    hg_base,     \* load's local: hg_base
    idx,         \* load's local: loop position
    todo,        \* load's local: ancestor patches still to import
    err,         \* the exception load raised, if any
    applied,     \* whether apply was called, and the exception it raised
    patch,       \* self.patch
    lines,       \* self.lines: a function from file name to list of lines
    files,       \* self.files, as the set of its elements
    improvement_patches,  \* self.improvement_patches
    result       \* outcome of the last call on the Revision record

loadVars == <<pc, parents, patches, hg_base, idx, todo, err>>
recVars  == <<lines, files, improvement_patches, result>>
vars == <<tenants, api, hg, calls, diff, revision, pc, parents, patches, hg_base, idx,
          todo, err, applied, patch, lines, files, improvement_patches, result>>

Objects == {1, 2}

\* ------------------------------------------------------------- exceptions
NoErr == [exc |-> "", code |-> "", message |-> <<>>]
\* Any exception the PhabricatorAPI client raises out of a request.
ApiError(op) == [exc |-> "Exception", code |-> "api", message |-> <<op>>]
\* parent_diffs[-1] on an empty list (revisions.py:239)
IndexError == [exc |-> "IndexError", code |-> "", message |-> <<"list index out of range">>]
\* self.patch.encode on None (revisions.py:293)
AttributeError == [exc |-> "AttributeError", code |-> "", message |-> <<"encode">>]
\* AnalysisException('mercurial', 'Failed to update to revision {}'.format(hg_base))
UpdateFailed(rev) ==
    [exc |-> "AnalysisException", code |-> "mercurial",
     message |-> <<"Failed to update to revision", rev>>]
\* AnalysisException('mercurial', 'Failed to import parent patch {}'.format(diff_phid))
ParentImportFailed(diff_phid) ==
    [exc |-> "AnalysisException", code |-> "mercurial",
     message |-> <<"Failed to import parent patch", diff_phid>>]
\* AnalysisException('mercurial', 'Failed to import target patch')
TargetImportFailed ==
    [exc |-> "AnalysisException", code |-> "mercurial",
     message |-> <<"Failed to import target patch">>]

\* Exception('Invalid Phabricator description')
InvalidDescription ==
    [exc |-> "Exception", code |-> "", message |-> <<"Invalid Phabricator description">>]
\* assert len(diffs) == 1, 'No diff available for {}'.format(self.diff_phid)
NoDiffAvailable(diff_phid) ==
    [exc |-> "AssertionError", code |-> "", message |-> <<"No diff available for", diff_phid>>]

\* ------------------------------------------------------- pure computations
\* revision_available: identify succeeds exactly on changesets the repository has.
revision_available(rev) == rev[1] = "hg" /\ rev[2] % 2 = 0

RECURSIVE InsertById(_, _)
\* Stable insertion of d into a list sorted by id: after every entry with id <= d.id.
InsertById(sorted, d) ==
    IF sorted = <<>> THEN <<d>>
    ELSE IF Head(sorted).id <= d.id
         THEN <<Head(sorted)>> \o InsertById(Tail(sorted), d)
         ELSE <<d>> \o sorted

RECURSIVE SortedById(_)
\* sorted(diffs, key=lambda x: x['id'])
SortedById(diffs) ==
    IF diffs = <<>> THEN <<>>
    ELSE InsertById(SortedById(SubSeq(diffs, 1, Len(diffs) - 1)), diffs[Len(diffs)])

\* A mutation of LastDiff: the last diff as the service returned them, unsorted.
LastDiffUnsorted(parent_diffs) == parent_diffs[Len(parent_diffs)]
\* last_diff = sorted(...)[-1]
LastDiff(parent_diffs) == SortedById(parent_diffs)[Len(parent_diffs)]

HasKey(d, k) == \E i \in 1..Len(d) : d[i].key = k
\* d[k] of an OrderedDict
Get(d, k) == LET i == CHOOSE i \in 1..Len(d) : d[i].key = k IN d[i].val
\* d[k] = v on an OrderedDict: a known key keeps its place, a new one goes last.
Put(d, k, v) ==
    IF HasKey(d, k)
    THEN [i \in 1..Len(d) |-> IF d[i].key = k THEN [key |-> k, val |-> v] ELSE d[i]]
    ELSE Append(d, [key |-> k, val |-> v])

\* A mutation of CandidateBase: only the first parent sets the base.
CandidateBaseFirst(current, last_diff) ==
    IF current = None THEN last_diff.baseRevision ELSE current
\* hg_base = last_diff['baseRevision'] (revisions.py:243)
CandidateBase(current, last_diff) == last_diff.baseRevision

\* A mutation of ApplyOrder: the whole chain, the target's own patch included.
ApplyOrderWithTarget(d) == Reverse(d)
\* reversed(list(patches.items())[1:])
ApplyOrder(d) == Reverse(Tail(d))

Call(r, op, arg, msg, ok) == [by |-> r, op |-> op, arg |-> arg, msg |-> msg, ok |-> ok]

\* ------------------------------------------------- the Revision record
\* File paths a diff or an issue may name.
Paths == {"a.cpp", "b.py"}
\* A path no diff of the model touches.
OtherPath == "c.js"

\* Ascending list of the members of a set of line numbers.
RECURSIVE Ascending(_)
Ascending(S) ==
    IF S = {} THEN <<>>
    ELSE LET m == CHOOSE m \in S : \A n \in S : m <= n
         IN  <<m>> \o Ascending(S \ {m})

\* What parsepatch reports for one file: every line of the new file is
\* untouched, touched or added; deleted lines carry old-file numbers.
FileDiffs ==
    {[touched |-> Ascending({n \in 1..MaxLine : kind[n] = "touched"}),
      added   |-> Ascending({n \in 1..MaxLine : kind[n] = "added"}),
      deleted |-> <<>>] :
        kind \in [1..MaxLine -> {"same", "touched", "added"}]}
    \cup {[touched |-> <<>>, added |-> <<>>, deleted |-> <<1>>],
          [touched |-> <<1>>, added |-> <<>>, deleted |-> <<MaxLine>>]}

\* The outcomes of Patch.parse_patch: a dict from file name to file diff.
ParsedPatches == UNION {[fs -> FileDiffs] : fs \in SUBSET Paths}

\* The empty string.
EmptyText == <<"">>
\* A non-empty patch text, written as what the parser reads in it.
Text(parsed) == <<"text", parsed>>
PatchTexts == {EmptyText} \cup {Text(parsed) : parsed \in ParsedPatches}

\* Patch.parse_patch(self.patch, skip_comments=False)
parse_patch(text) == IF text = EmptyText THEN <<>> ELSE text[2]

Issues ==
    [path : Paths \cup {OtherPath}, line : 1..(MaxLine + 1), nb_lines : 0..MaxSpan]
NoIssue == [path |-> "", line |-> 0, nb_lines |-> 0]

\* The outcome of a call on the record: what it returned or raised.
NoResult == [op |-> "", issue |-> NoIssue, ret |-> "None", exc |-> NoErr]
Returned(op, issue, ret) == [op |-> op, issue |-> issue, ret |-> ret, exc |-> NoErr]
Raised(op, issue, e) == [op |-> op, issue |-> issue, ret |-> "None", exc |-> e]
AssertionError(msg) == [exc |-> "AssertionError", code |-> "", message |-> <<msg>>]

\* range(a, b)
PyRange(a, b) == {n \in a..(b - 1) : TRUE}
\* set.isdisjoint(list)
IsDisjoint(S, list) == \A i \in 1..Len(list) : list[i] \notin S
PyBool(b) == IF b THEN "True" ELSE "False"

\* A mutation of ContainsResult: the span is taken one line too long.
ContainsResultInclusive(modified, issue) ==
    IF issue.path \notin DOMAIN modified THEN "False"
    ELSE PyBool(~IsDisjoint(PyRange(issue.line, issue.line + issue.nb_lines + 1),
                            modified[issue.path]))
\* A mutation of ContainsResult: the early return for a path that is not a
\* key is lost, so the method falls off its end.
ContainsResultNoReturn(modified, issue) ==
    IF issue.path \notin DOMAIN modified THEN "None"
    ELSE PyBool(~IsDisjoint(PyRange(issue.line, issue.line + issue.nb_lines),
                            modified[issue.path]))
\* Revision.contains, lines 123-130, on the mapping self.lines.
ContainsResult(modified, issue) ==
    IF issue.path \notin DOMAIN modified THEN "False"
    ELSE PyBool(~IsDisjoint(PyRange(issue.line, issue.line + issue.nb_lines),
                            modified[issue.path]))

\* ------------------------------------------------------------------- Init
\* Revision.__init__ (files, lines, patch, improvement_patches) and
\* PhabricatorRevision.__init__ done: self.diff holds the target diff.
InitObjects ==
    /\ pc = [r \in Objects |-> "idle"]
    /\ parents = [r \in Objects |-> <<>>]
    /\ patches = [r \in Objects |-> <<>>]
    /\ hg_base = [r \in Objects |-> None]
    /\ idx = [r \in Objects |-> 0]
    /\ todo = [r \in Objects |-> <<>>]
    /\ err = [r \in Objects |-> NoErr]
    /\ applied = [r \in Objects |-> [done |-> FALSE, exc |-> NoErr]]
    /\ lines = [r \in Objects |-> <<>>]
    /\ files = [r \in Objects |-> {}]
    /\ improvement_patches = [r \in Objects |-> <<>>]
    /\ result = [r \in Objects |-> NoResult]
    /\ revision = [r \in Objects |-> load_revision(TargetRev)]

\* What the review service holds: the target's parents, each parent's diffs in
\* the order the service lists them, and the target diff's base field.
InitService ==
    /\ \E ps \in SeqsUpTo(ParentRevs, MaxParents) :
       \E ds \in [ParentRevs -> UNION {Orderings(DiffIdsOf(rev)) : rev \in ParentRevs}] :
          /\ \A rev \in ParentRevs : Range(ds[rev]) \subseteq DiffIdsOf(rev)
          /\ api = [parents |-> ps,
                    diffs |-> [rev \in ParentRevs |->
                                 [i \in 1..Len(ds[rev]) |-> DiffRecord(rev, ds[rev][i])]]]
    /\ \E base \in {None, KnownRev(TargetDiffId), MissingRev(TargetDiffId)} :
          diff = [r \in Objects |->
                    [id |-> TargetDiffId, phid |-> DiffPhid(TargetDiffId),
                     revisionPHID |-> TargetRev, baseRevision |-> base]]
    /\ hg = [base |-> None, applied |-> <<>>]
    /\ calls = <<>>

Init ==
    /\ tenants = {1}
    /\ InitService
    /\ InitObjects
    /\ patch = [r \in Objects |-> None]

\* ------------------------------------------------------------ construction
\* Descriptions a PhabricatorRevision may be built from: a diff phid, a
\* revision phid, and a differential number such as D90.
Descriptions == {DiffPhid(TargetDiffId), TargetRev, <<"D", TargetDiffId>>}
\* self.regex.match(description), with regex ^(PHID-DIFF-(?:\w+))$
RegexMatch(description) == description[1] = "PHID-DIFF"

\* The fields of an object whose constructor has not run to its end.
NoDiff == [id |-> 0, phid |-> None, revisionPHID |-> None, baseRevision |-> None]
NoRevision == [id |-> 0, phid |-> None]

\* A mutation of Construct: the first diff found is taken, however many the
\* search returns.
ConstructFirstFound(r, description) ==
    /\ pc[r] = "new"
    /\ IF ~RegexMatch(description)
       THEN /\ pc' = [pc EXCEPT ![r] = "invalid"]
            /\ err' = [err EXCEPT ![r] = InvalidDescription]
            /\ UNCHANGED <<calls, diff, revision>>
       ELSE LET diff_phid == description
                diffs == api.found
                searched(ok) == Call(r, "search_diffs", diff_phid, None, ok)
            IN  \/ /\ calls' = Append(calls, searched(FALSE))
                   /\ pc' = [pc EXCEPT ![r] = "invalid"]
                   /\ err' = [err EXCEPT ![r] = ApiError("search_diffs")]
                   /\ UNCHANGED <<diff, revision>>
                \/ /\ Len(diffs) = 0
                   /\ calls' = Append(calls, searched(TRUE))
                   /\ pc' = [pc EXCEPT ![r] = "invalid"]
                   /\ err' = [err EXCEPT ![r] = NoDiffAvailable(diff_phid)]
                   /\ UNCHANGED <<diff, revision>>
                \/ /\ Len(diffs) >= 1
                   /\ diff' = [diff EXCEPT ![r] = diffs[1]]
                   /\ LET phid == diffs[1].revisionPHID
                      IN  \/ /\ calls' = calls \o <<searched(TRUE),
                                        Call(r, "load_revision", phid, None, TRUE)>>
                             /\ revision' = [revision EXCEPT ![r] = load_revision(phid)]
                             /\ pc' = [pc EXCEPT ![r] = "idle"]
                             /\ UNCHANGED err
                          \/ /\ calls' = calls \o <<searched(TRUE),
                                        Call(r, "load_revision", phid, None, FALSE)>>
                             /\ pc' = [pc EXCEPT ![r] = "invalid"]
                             /\ err' = [err EXCEPT ![r] = ApiError("load_revision")]
                             /\ UNCHANGED revision
    /\ UNCHANGED <<tenants, api, hg, parents, patches, hg_base, idx, todo, applied,
                   patch, recVars>>

\* PhabricatorRevision.__init__
Construct(r, description) ==
    /\ pc[r] = "new"
    /\ IF ~RegexMatch(description)
       THEN /\ pc' = [pc EXCEPT ![r] = "invalid"]
            /\ err' = [err EXCEPT ![r] = InvalidDescription]
            /\ UNCHANGED <<calls, diff, revision>>
       ELSE LET diff_phid == description
                diffs == api.found
                searched(ok) == Call(r, "search_diffs", diff_phid, None, ok)
            IN  \/ /\ calls' = Append(calls, searched(FALSE))
                   /\ pc' = [pc EXCEPT ![r] = "invalid"]
                   /\ err' = [err EXCEPT ![r] = ApiError("search_diffs")]
                   /\ UNCHANGED <<diff, revision>>
                \/ /\ Len(diffs) # 1
                   /\ calls' = Append(calls, searched(TRUE))
                   /\ pc' = [pc EXCEPT ![r] = "invalid"]
                   /\ err' = [err EXCEPT ![r] = NoDiffAvailable(diff_phid)]
                   /\ UNCHANGED <<diff, revision>>
                \/ /\ Len(diffs) = 1
                   /\ diff' = [diff EXCEPT ![r] = diffs[1]]
                   /\ LET phid == diffs[1].revisionPHID
                      IN  \/ /\ calls' = calls \o <<searched(TRUE),
                                        Call(r, "load_revision", phid, None, TRUE)>>
                             /\ revision' = [revision EXCEPT ![r] = load_revision(phid)]
                             /\ pc' = [pc EXCEPT ![r] = "idle"]
                             /\ UNCHANGED err
                          \/ /\ calls' = calls \o <<searched(TRUE),
                                        Call(r, "load_revision", phid, None, FALSE)>>
                             /\ pc' = [pc EXCEPT ![r] = "invalid"]
                             /\ err' = [err EXCEPT ![r] = ApiError("load_revision")]
                             /\ UNCHANGED revision
    /\ UNCHANGED <<tenants, api, hg, parents, patches, hg_base, idx, todo, applied,
                   patch, recVars>>

\* ------------------------------------------------------------------- load
Fail(r, e) ==
    /\ pc' = [pc EXCEPT ![r] = "failed"]
    /\ err' = [err EXCEPT ![r] = e]

\* load, lines 224-228 and 245-247: seed the chain, ask for the parents.
LoadParents(r) ==
    /\ pc[r] = "idle"
    /\ ~applied[r].done
    /\ \/ /\ calls' = Append(calls, Call(r, "load_parents", diff[r].revisionPHID, None, TRUE))
          /\ parents' = [parents EXCEPT ![r] = api.parents]
          /\ patches' = [patches EXCEPT ![r] =
                            Put(<<>>, diff[r].phid, <<"id", diff[r].id>>)]
          /\ IF api.parents # <<>>
             THEN /\ idx' = [idx EXCEPT ![r] = 1]
                  /\ pc' = [pc EXCEPT ![r] = "search"]
                  /\ UNCHANGED hg_base
             ELSE /\ hg_base' = [hg_base EXCEPT ![r] = diff[r].baseRevision]
                  /\ pc' = [pc EXCEPT ![r] = "identify"]
                  /\ UNCHANGED idx
          /\ UNCHANGED err
       \/ /\ calls' = Append(calls, Call(r, "load_parents", diff[r].revisionPHID, None, FALSE))
          /\ Fail(r, ApiError("load_parents"))
          /\ UNCHANGED <<parents, patches, hg_base, idx>>
    /\ UNCHANGED <<tenants, api, revision, hg, diff, todo, applied, patch, recVars>>

\* load, lines 231-243: one turn of the loop over the parents.
SearchDiffs(r) ==
    /\ pc[r] = "search"
    /\ LET parent == parents[r][idx[r]]
           parent_diffs == api.diffs[parent]
       IN  \/ /\ parent_diffs # <<>>
              /\ calls' = Append(calls, Call(r, "search_diffs", parent, None, TRUE))
              /\ LET last_diff == LastDiff(parent_diffs)
                 IN  /\ patches' = [patches EXCEPT ![r] =
                                       Put(@, last_diff.phid, <<"id", last_diff.id>>)]
                     /\ hg_base' = [hg_base EXCEPT ![r] = CandidateBase(@, last_diff)]
              /\ IF idx[r] = Len(parents[r])
                 THEN pc' = [pc EXCEPT ![r] = "identify"]
                 ELSE pc' = pc
              /\ idx' = [idx EXCEPT ![r] = @ + 1]
              /\ UNCHANGED err
           \/ /\ parent_diffs = <<>>
              /\ calls' = Append(calls, Call(r, "search_diffs", parent, None, TRUE))
              /\ Fail(r, IndexError)
              /\ UNCHANGED <<patches, hg_base, idx>>
           \/ /\ calls' = Append(calls, Call(r, "search_diffs", parent, None, FALSE))
              /\ Fail(r, ApiError("search_diffs"))
              /\ UNCHANGED <<patches, hg_base, idx>>
    /\ UNCHANGED <<tenants, api, revision, hg, diff, parents, todo, applied, patch, recVars>>

\* A mutation of ResolveBase: the candidate is checked out unvalidated.
ResolveBaseNoFallback(r) ==
    /\ pc[r] = "identify"
    /\ calls' = calls
    /\ hg_base' = hg_base
    /\ pc' = [pc EXCEPT ![r] = "raw"]
    /\ idx' = [idx EXCEPT ![r] = 1]
    /\ UNCHANGED <<tenants, api, revision, hg, diff, parents, patches, todo, err, applied,
                   patch, recVars>>
\* A mutation of ResolveBase: the working copy is checked out as soon as the
\* base is known, before the raw diffs are fetched.
ResolveBaseThenCheckout(r) ==
    /\ pc[r] = "identify"
    /\ LET base == IF hg_base[r] # None /\ revision_available(hg_base[r])
                   THEN hg_base[r] ELSE central
           identified == IF hg_base[r] = None THEN <<>>
                         ELSE <<Call(r, "identify", hg_base[r], None,
                                     revision_available(hg_base[r]))>>
       IN  /\ calls' = calls \o identified \o <<Call(r, "update", base, None, TRUE)>>
           /\ hg' = [base |-> base, applied |-> <<>>]
           /\ hg_base' = [hg_base EXCEPT ![r] = base]
    /\ pc' = [pc EXCEPT ![r] = "raw"]
    /\ idx' = [idx EXCEPT ![r] = 1]
    /\ UNCHANGED <<tenants, api, revision, diff, parents, patches, todo, err, applied,
                   patch, recVars>>
\* load, lines 249-252: fall back to central when the base is missing.
ResolveBase(r) ==
    /\ pc[r] = "identify"
    /\ IF hg_base[r] = None
       THEN /\ calls' = calls
            /\ hg_base' = [hg_base EXCEPT ![r] = central]
       ELSE /\ calls' = Append(calls, Call(r, "identify", hg_base[r], None,
                                           revision_available(hg_base[r])))
            /\ hg_base' = [hg_base EXCEPT ![r] =
                              IF revision_available(@) THEN @ ELSE central]
    /\ pc' = [pc EXCEPT ![r] = "raw"]
    /\ idx' = [idx EXCEPT ![r] = 1]
    /\ UNCHANGED <<tenants, api, revision, hg, diff, parents, patches, todo, err, applied,
                   patch, recVars>>

\* load, lines 254-259: fetch one raw diff; after the last, expose the target's.
LoadRawDiff(r) ==
    /\ pc[r] = "raw"
    /\ LET entry == patches[r][idx[r]]
           arg == <<"diff", entry.val[2]>>
       IN  \/ /\ calls' = Append(calls, Call(r, "load_raw_diff", arg, None, TRUE))
              /\ LET loaded == Put(patches[r], entry.key, RawDiff(entry.val[2]))
                 IN  /\ patches' = [patches EXCEPT ![r] = loaded]
                     /\ IF idx[r] = Len(patches[r])
                        THEN /\ patch' = [patch EXCEPT ![r] = Get(loaded, diff[r].phid)]
                             /\ pc' = [pc EXCEPT ![r] = "update"]
                        ELSE /\ patch' = patch
                             /\ pc' = pc
              /\ idx' = [idx EXCEPT ![r] = @ + 1]
              /\ UNCHANGED err
           \/ /\ calls' = Append(calls, Call(r, "load_raw_diff", arg, None, FALSE))
              /\ Fail(r, ApiError("load_raw_diff"))
              /\ UNCHANGED <<patches, idx, patch>>
    /\ UNCHANGED <<tenants, api, revision, hg, diff, parents, hg_base, todo, applied, recVars>>

\* A mutation of Update: the checkout is not clean, patches imported earlier
\* stay in the working copy.
UpdateWithoutClean(r) ==
    /\ pc[r] = "update"
    /\ \/ /\ calls' = Append(calls, Call(r, "update", hg_base[r], None, TRUE))
          /\ hg' = [hg EXCEPT !.base = hg_base[r]]
          /\ todo' = [todo EXCEPT ![r] = ApplyOrder(patches[r])]
          /\ pc' = [pc EXCEPT ![r] =
                       IF ApplyOrder(patches[r]) = <<>> THEN "loaded" ELSE "import"]
          /\ UNCHANGED err
       \/ /\ calls' = Append(calls, Call(r, "update", hg_base[r], None, FALSE))
          /\ Fail(r, UpdateFailed(hg_base[r]))
          /\ UNCHANGED <<hg, todo>>
    /\ UNCHANGED <<tenants, api, revision, diff, parents, patches, hg_base, idx, applied,
                   patch, recVars>>

\* A mutation of Update: a failed update is swallowed and the imports go on.
UpdateIgnoringFailure(r) ==
    /\ pc[r] = "update"
    /\ \E ok \in BOOLEAN :
          /\ calls' = Append(calls, Call(r, "update", hg_base[r], None, ok))
          /\ hg' = IF ok THEN [base |-> hg_base[r], applied |-> <<>>] ELSE hg
    /\ todo' = [todo EXCEPT ![r] = ApplyOrder(patches[r])]
    /\ pc' = [pc EXCEPT ![r] =
                 IF ApplyOrder(patches[r]) = <<>> THEN "loaded" ELSE "import"]
    /\ UNCHANGED <<tenants, api, revision, diff, parents, patches, hg_base, idx, err, applied,
                   patch, recVars>>
\* load, lines 261-269: clean update of the working copy to hg_base.
Update(r) ==
    /\ pc[r] = "update"
    /\ \/ /\ calls' = Append(calls, Call(r, "update", hg_base[r], None, TRUE))
          /\ hg' = [base |-> hg_base[r], applied |-> <<>>]
          /\ todo' = [todo EXCEPT ![r] = ApplyOrder(patches[r])]
          /\ pc' = [pc EXCEPT ![r] =
                       IF ApplyOrder(patches[r]) = <<>> THEN "loaded" ELSE "import"]
          /\ UNCHANGED err
       \/ /\ calls' = Append(calls, Call(r, "update", hg_base[r], None, FALSE))
          /\ Fail(r, UpdateFailed(hg_base[r]))
          /\ UNCHANGED <<hg, todo>>
    /\ UNCHANGED <<tenants, api, revision, diff, parents, patches, hg_base, idx, applied,
                   patch, recVars>>

\* A mutation of Import: a failed import is skipped and the next one is tried.
ImportIgnoringFailure(r) ==
    /\ pc[r] = "import"
    /\ \E ok \in BOOLEAN :
          /\ calls' = Append(calls, Call(r, "import", Head(todo[r]).val,
                                        Head(todo[r]).key, ok))
          /\ hg' = IF ok THEN [hg EXCEPT !.applied = Append(@, Head(todo[r]).val)] ELSE hg
    /\ todo' = [todo EXCEPT ![r] = Tail(@)]
    /\ pc' = [pc EXCEPT ![r] = IF Tail(todo[r]) = <<>> THEN "loaded" ELSE "import"]
    /\ UNCHANGED <<tenants, api, revision, diff, parents, patches, hg_base, idx, err, applied,
                   patch, recVars>>
\* load, lines 273-282: import the next ancestor patch.
Import(r) ==
    /\ pc[r] = "import"
    /\ LET diff_phid == Head(todo[r]).key
           text == Head(todo[r]).val
       IN  \/ /\ calls' = Append(calls, Call(r, "import", text, diff_phid, TRUE))
              /\ hg' = [hg EXCEPT !.applied = Append(@, text)]
              /\ todo' = [todo EXCEPT ![r] = Tail(@)]
              /\ pc' = [pc EXCEPT ![r] = IF Tail(todo[r]) = <<>> THEN "loaded" ELSE "import"]
              /\ UNCHANGED err
           \/ /\ calls' = Append(calls, Call(r, "import", text, diff_phid, FALSE))
              /\ Fail(r, ParentImportFailed(diff_phid))
              /\ UNCHANGED <<hg, todo>>
    /\ UNCHANGED <<tenants, api, revision, diff, parents, patches, hg_base, idx, applied,
                   patch, recVars>>

\* ------------------------------------------------------------------ apply
\* The commit message of the target import: 'SA Analyzed patch'.
AnalyzedMsg == <<"SA Analyzed patch">>

\* A mutation of Apply: apply refuses to run unless load has succeeded.
ApplyAfterLoadOnly(r) ==
    /\ pc[r] \in {"idle", "loaded", "failed"}
    /\ ~applied[r].done
    /\ IF patch[r] = None \/ pc[r] # "loaded"
       THEN /\ applied' = [applied EXCEPT ![r] = [done |-> TRUE, exc |-> AttributeError]]
            /\ UNCHANGED <<calls, hg>>
       ELSE \/ /\ calls' = Append(calls, Call(r, "import", patch[r], AnalyzedMsg, TRUE))
               /\ hg' = [hg EXCEPT !.applied = Append(@, patch[r])]
               /\ applied' = [applied EXCEPT ![r] = [done |-> TRUE, exc |-> NoErr]]
            \/ /\ calls' = Append(calls, Call(r, "import", patch[r], AnalyzedMsg, FALSE))
               /\ applied' = [applied EXCEPT ![r] = [done |-> TRUE, exc |-> TargetImportFailed]]
               /\ UNCHANGED hg
    /\ UNCHANGED <<tenants, api, revision, diff, loadVars, patch, recVars>>

\* PhabricatorRevision.apply: import self.patch on top of the working copy.
Apply(r) ==
    /\ pc[r] \in {"idle", "loaded", "failed"}
    /\ ~applied[r].done
    /\ IF patch[r] = None
       THEN /\ applied' = [applied EXCEPT ![r] = [done |-> TRUE, exc |-> AttributeError]]
            /\ UNCHANGED <<calls, hg>>
       ELSE \/ /\ calls' = Append(calls, Call(r, "import", patch[r], AnalyzedMsg, TRUE))
               /\ hg' = [hg EXCEPT !.applied = Append(@, patch[r])]
               /\ applied' = [applied EXCEPT ![r] = [done |-> TRUE, exc |-> NoErr]]
            \/ /\ calls' = Append(calls, Call(r, "import", patch[r], AnalyzedMsg, FALSE))
               /\ applied' = [applied EXCEPT ![r] = [done |-> TRUE, exc |-> TargetImportFailed]]
               /\ UNCHANGED hg
    /\ UNCHANGED <<tenants, api, revision, diff, loadVars, patch, recVars>>

\* ------------------------------------------------- Revision operations
\* A mutation of ModifiedLines: the deleted lines are counted as modified too.
ModifiedLinesWithDeleted(filediff) ==
    filediff.touched \o filediff.added \o filediff.deleted
\* diff.get('touched', []) + diff.get('added', []), line 105
ModifiedLines(filediff) == filediff.touched \o filediff.added

\* A mutation of AnalyzePatch: files is a copy taken by the constructor and
\* is not taken again.
AnalyzePatchStaleFiles(r) ==
    /\ IF patch[r] = None
       THEN /\ result' = [result EXCEPT ![r] =
                            Raised("analyze_patch", NoIssue, AssertionError("Missing patch"))]
            /\ UNCHANGED <<lines, files>>
       ELSE LET parsed == parse_patch(patch[r])
            IN  IF DOMAIN parsed = {}
                THEN /\ result' = [result EXCEPT ![r] =
                            Raised("analyze_patch", NoIssue, AssertionError("Empty patch"))]
                     /\ UNCHANGED <<lines, files>>
                ELSE /\ lines' = [lines EXCEPT ![r] =
                            [filename \in DOMAIN parsed |-> ModifiedLines(parsed[filename])]]
                     /\ files' = files
                     /\ result' = [result EXCEPT ![r] =
                            Returned("analyze_patch", NoIssue, "None")]
    /\ UNCHANGED <<tenants, api, revision, hg, calls, diff, loadVars, applied, patch,
                   improvement_patches>>

\* A mutation of AnalyzePatch: the mapping is stored before the parse result
\* is checked for emptiness.
AnalyzePatchStoreFirst(r) ==
    /\ IF patch[r] = None
       THEN /\ result' = [result EXCEPT ![r] =
                            Raised("analyze_patch", NoIssue, AssertionError("Missing patch"))]
            /\ UNCHANGED <<lines, files>>
       ELSE LET parsed == parse_patch(patch[r])
            IN  /\ lines' = [lines EXCEPT ![r] =
                            [filename \in DOMAIN parsed |-> ModifiedLines(parsed[filename])]]
                /\ files' = [files EXCEPT ![r] = DOMAIN parsed]
                /\ result' = [result EXCEPT ![r] =
                      IF DOMAIN parsed = {}
                      THEN Raised("analyze_patch", NoIssue, AssertionError("Empty patch"))
                      ELSE Returned("analyze_patch", NoIssue, "None")]
    /\ UNCHANGED <<tenants, api, revision, hg, calls, diff, loadVars, applied, patch,
                   improvement_patches>>

\* Revision.analyze_patch
AnalyzePatch(r) ==
    /\ IF patch[r] = None
       THEN /\ result' = [result EXCEPT ![r] =
                            Raised("analyze_patch", NoIssue, AssertionError("Missing patch"))]
            /\ UNCHANGED <<lines, files>>
       ELSE LET parsed == parse_patch(patch[r])
            IN  IF DOMAIN parsed = {}
                THEN /\ result' = [result EXCEPT ![r] =
                            Raised("analyze_patch", NoIssue, AssertionError("Empty patch"))]
                     /\ UNCHANGED <<lines, files>>
                ELSE /\ lines' = [lines EXCEPT ![r] =
                            [filename \in DOMAIN parsed |-> ModifiedLines(parsed[filename])]]
                     /\ files' = [files EXCEPT ![r] = DOMAIN parsed]
                     /\ result' = [result EXCEPT ![r] =
                            Returned("analyze_patch", NoIssue, "None")]
    /\ UNCHANGED <<tenants, api, revision, hg, calls, diff, loadVars, applied, patch,
                   improvement_patches>>

\* Revision.contains
Contains(r, issue) ==
    /\ result' = [result EXCEPT ![r] =
                    Returned("contains", issue, ContainsResult(lines[r], issue))]
    /\ UNCHANGED <<tenants, api, revision, hg, calls, diff, loadVars, applied, patch,
                   lines, files, improvement_patches>>

\* PhabricatorRevision.__repr__
Repr(r) == diff[r].phid
\* '{}-{}.diff'.format(analyzer_name, patch_name)
PatchName(analyzer_name, patch_name) == <<analyzer_name, "-", patch_name, ".diff">>
\* ImprovementPatch.__init__
ImprovementPatch(analyzer_name, patch_name, content) ==
    [analyzer |-> analyzer_name, name |-> PatchName(analyzer_name, patch_name),
     content |-> content, url |-> None, path |-> None]

\* Analyzer names and patch contents a caller may pass; "" is the empty string.
Analyzers == {"clang-tidy", "clang-format"}
Contents == {"", "fix-1", "fix-2"}

\* A mutation of AddImprovementPatch: one patch is kept per analyzer, a new
\* one takes the place of the analyzer's earlier one.
AddImprovementPatchPerAnalyzer(r, analyzer_name, content) ==
    /\ IF content = ""
       THEN /\ result' = [result EXCEPT ![r] =
                   Raised("add_improvement_patch", NoIssue, AssertionError(""))]
            /\ UNCHANGED improvement_patches
       ELSE /\ Len(improvement_patches[r]) < MaxPatches
            /\ LET Others(p) == p.analyzer # analyzer_name
               IN  improvement_patches' = [improvement_patches EXCEPT ![r] =
                      Append(SelectSeq(@, Others),
                             ImprovementPatch(analyzer_name, Repr(r), content))]
            /\ result' = [result EXCEPT ![r] =
                   Returned("add_improvement_patch", NoIssue, "None")]
    /\ UNCHANGED <<tenants, api, revision, hg, calls, diff, loadVars, applied, patch,
                   lines, files>>

\* Revision.add_improvement_patch
AddImprovementPatch(r, analyzer_name, content) ==
    /\ IF content = ""
       THEN /\ result' = [result EXCEPT ![r] =
                   Raised("add_improvement_patch", NoIssue, AssertionError(""))]
            /\ UNCHANGED improvement_patches
       ELSE /\ Len(improvement_patches[r]) < MaxPatches
            /\ improvement_patches' = [improvement_patches EXCEPT ![r] =
                   Append(@, ImprovementPatch(analyzer_name, Repr(r), content))]
            /\ result' = [result EXCEPT ![r] =
                   Returned("add_improvement_patch", NoIssue, "None")]
    /\ UNCHANGED <<tenants, api, revision, hg, calls, diff, loadVars, applied, patch,
                   lines, files>>

\* Patch texts a load may leave in self.patch: the empty string, a text in
\* which the parser finds no file, a one-file diff, and a two-file diff one
\* of whose files has deleted lines only.
LoadedTexts ==
    {EmptyText,
     Text(<<>>),
     Text([f \in {"a.cpp"} |-> [touched |-> <<1>>, added |-> <<MaxLine>>, deleted |-> <<>>]]),
     Text([f \in Paths |->
             IF f = "a.cpp" THEN [touched |-> <<>>, added |-> <<>>, deleted |-> <<1>>]
             ELSE [touched |-> <<1>>, added |-> <<>>, deleted |-> <<MaxLine>>]])}

\* self.patch = patches[self.diff_phid], line 259: what a run of load does to
\* the record.
ExposePatch(r, text) ==
    /\ text # patch[r]
    /\ patch' = [patch EXCEPT ![r] = text]
    /\ UNCHANGED <<tenants, api, revision, hg, calls, diff, loadVars, applied, recVars>>

Next ==
    \/ \E r \in tenants : LoadParents(r)
    \/ \E r \in tenants : SearchDiffs(r)
    \/ \E r \in tenants : ResolveBase(r)
    \/ \E r \in tenants : LoadRawDiff(r)
    \/ \E r \in tenants : Update(r)
    \/ \E r \in tenants : Import(r)
    \/ \E r \in tenants : Apply(r)

Spec == Init /\ [][Next]_vars

\* ------------------------------------- two loads on one working copy
\* Two revision objects of the target share the repository; load takes no
\* lock, so their steps interleave freely. The target has one parent or two,
\* each with one diff.
InitShared ==
    /\ tenants = Objects
    /\ \E ps \in {<<<<"PHID-DREV", 1>>>>, <<<<"PHID-DREV", 1>>, <<"PHID-DREV", 2>>>>} :
          api = [parents |-> ps,
                 diffs |-> [rev \in ParentRevs |-> <<DiffRecord(rev, rev[2])>>]]
    /\ diff = [r \in Objects |->
                 [id |-> TargetDiffId, phid |-> DiffPhid(TargetDiffId),
                  revisionPHID |-> TargetRev, baseRevision |-> None]]
    /\ hg = [base |-> None, applied |-> <<>>]
    /\ calls = <<>>
    /\ InitObjects
    /\ patch = [r \in Objects |-> None]

NextShared ==
    \/ \E r \in tenants : LoadParents(r)
    \/ \E r \in tenants : SearchDiffs(r)
    \/ \E r \in tenants : ResolveBase(r)
    \/ \E r \in tenants : LoadRawDiff(r)
    \/ \E r \in tenants : Update(r)
    \/ \E r \in tenants : Import(r)

SpecShared == InitShared /\ [][NextShared]_vars

\* ------------------------------------------ construction, then load
\* Nothing is constructed yet. The service holds the target's parents, for
\* each parent its first diff or none, and what a search by the target's
\* diff phid finds: no diff, the target diff, or the target diff and one more.
InitNew ==
    /\ tenants = {1}
    /\ \E ps \in SeqsUpTo(ParentRevs, MaxParents) :
       \E has \in SUBSET ParentRevs :
       \E base \in {None, KnownRev(TargetDiffId)} :
       \E n \in 0..2 :
          LET target == [id |-> TargetDiffId, phid |-> DiffPhid(TargetDiffId),
                         revisionPHID |-> TargetRev, baseRevision |-> base]
              other  == [id |-> TargetDiffId + 1, phid |-> DiffPhid(TargetDiffId),
                         revisionPHID |-> TargetRev, baseRevision |-> None]
          IN  api = [parents |-> ps,
                     diffs |-> [rev \in ParentRevs |->
                                  IF rev \in has THEN <<DiffRecord(rev, rev[2])>>
                                  ELSE <<>>],
                     found |-> SubSeq(<<target, other>>, 1, n)]
    /\ hg = [base |-> None, applied |-> <<>>]
    /\ calls = <<>>
    /\ diff = [r \in Objects |-> NoDiff]
    /\ revision = [r \in Objects |-> NoRevision]
    /\ pc = [r \in Objects |-> "new"]
    /\ parents = [r \in Objects |-> <<>>]
    /\ patches = [r \in Objects |-> <<>>]
    /\ hg_base = [r \in Objects |-> None]
    /\ idx = [r \in Objects |-> 0]
    /\ todo = [r \in Objects |-> <<>>]
    /\ err = [r \in Objects |-> NoErr]
    /\ applied = [r \in Objects |-> [done |-> FALSE, exc |-> NoErr]]
    /\ patch = [r \in Objects |-> None]
    /\ lines = [r \in Objects |-> <<>>]
    /\ files = [r \in Objects |-> {}]
    /\ improvement_patches = [r \in Objects |-> <<>>]
    /\ result = [r \in Objects |-> NoResult]

NextNew ==
    \/ \E r \in tenants : \E description \in Descriptions : Construct(r, description)
    \/ Next

SpecNew == InitNew /\ [][NextNew]_vars

\* ------------------------------------- the Revision record on its own
\* A constructed revision object whose patch is absent or any patch text;
\* the review service and the working copy play no part.
InitRev ==
    /\ tenants = {1}
    /\ api = [parents |-> <<>>, diffs |-> [rev \in ParentRevs |-> <<>>]]
    /\ diff = [r \in Objects |->
                 [id |-> TargetDiffId, phid |-> DiffPhid(TargetDiffId),
                  revisionPHID |-> TargetRev, baseRevision |-> None]]
    /\ hg = [base |-> None, applied |-> <<>>]
    /\ calls = <<>>
    /\ InitObjects
    /\ \E text \in PatchTexts \cup {None} :
          patch = [r \in Objects |-> IF r \in tenants THEN text ELSE None]

NextRev ==
    \/ \E r \in tenants : AnalyzePatch(r)
    \/ \E r \in tenants : \E issue \in Issues : Contains(r, issue)

SpecRev == InitRev /\ [][NextRev]_vars

\* ------------------------- the Revision record under all its operations
\* A freshly constructed revision object: no patch yet, nothing analyzed, no
\* improvement patch.
InitRecord ==
    /\ tenants = {1}
    /\ api = [parents |-> <<>>, diffs |-> [rev \in ParentRevs |-> <<>>]]
    /\ diff = [r \in Objects |->
                 [id |-> TargetDiffId, phid |-> DiffPhid(TargetDiffId),
                  revisionPHID |-> TargetRev, baseRevision |-> None]]
    /\ hg = [base |-> None, applied |-> <<>>]
    /\ calls = <<>>
    /\ InitObjects
    /\ patch = [r \in Objects |-> None]

NextRecord ==
    \/ \E r \in tenants : \E text \in LoadedTexts : ExposePatch(r, text)
    \/ \E r \in tenants : AnalyzePatch(r)
    \/ \E r \in tenants : \E issue \in Issues : Contains(r, issue)
    \/ \E r \in tenants : \E analyzer_name \in Analyzers : \E content \in Contents :
          AddImprovementPatch(r, analyzer_name, content)

SpecRecord == InitRecord /\ [][NextRecord]_vars

\* ------------------------------------------------------------ properties
\* The calls of object r that import a patch from within load (apply's import
\* carries the message 'SA Analyzed patch').
LoadImports(r) ==
    LET ByLoad(c) == c.by = r /\ c.op = "import" /\ c.msg # AnalyzedMsg
    IN  SelectSeq(calls, ByLoad)
\* All calls of object r that change the working copy.
Mutations(r) ==
    LET Mutating(c) == c.by = r /\ c.op \in {"update", "import"}
    IN  SelectSeq(calls, Mutating)
\* The diff of a parent with the greatest id.
Newest(rev) ==
    CHOOSE d \in Range(api.diffs[rev]) : \A e \in Range(api.diffs[rev]) : e.id <= d.id
\* The selected diff of each parent, in the order the service listed the parents.
Discovery == [i \in 1..Len(api.parents) |-> Newest(api.parents[i])]
RECURSIVE DropRepeats(_)
\* s with every repeat of an earlier element dropped.
DropRepeats(s) ==
    IF s = <<>> THEN <<>>
    ELSE LET front == SubSeq(s, 1, Len(s) - 1)
         IN  IF s[Len(s)] \in Range(front) THEN DropRepeats(front)
             ELSE Append(DropRepeats(front), s[Len(s)])
Phids(ds) == [i \in 1..Len(ds) |-> ds[i].phid]
Msgs(cs) == [i \in 1..Len(cs) |-> cs[i].msg]
Args(cs) == [i \in 1..Len(cs) |-> cs[i].arg]
Past(r, places) == pc[r] \in places
ChainBuilt == {"identify", "raw", "update", "import", "loaded"}

\* C1: a load that completes has imported the ancestors' selected diffs in the
\* reverse of the order in which the service listed the parents (the last
\* parent's diff first, the first parent's last), each diff once.
C1_ReverseDiscoveryOrder ==
    \A r \in tenants :
        pc[r] = "loaded" =>
            Msgs(LoadImports(r)) = DropRepeats(Reverse(Phids(Discovery)))

\* C2: load never imports the target's own patch, whether it succeeds or
\* fails; a successful load exposes the target's raw diff in self.patch, and
\* the only import of it is the one apply makes.
C2_TargetNotAppliedByLoad ==
    \A r \in tenants :
        /\ \A i \in 1..Len(LoadImports(r)) :
              /\ LoadImports(r)[i].arg # RawDiff(diff[r].id)
              /\ LoadImports(r)[i].msg # diff[r].phid
        /\ pc[r] = "loaded" => patch[r] = RawDiff(diff[r].id)
        /\ ~applied[r].done => RawDiff(diff[r].id) \notin Range(Args(Mutations(r)))
        /\ ~applied[r].done => RawDiff(diff[r].id) \notin Range(hg.applied)
C2_Witness ==
    /\ pc[1] = "loaded"
    /\ Len(parents[1]) = 2
    /\ patch[1] = RawDiff(TargetDiffId)
    /\ ~applied[1].done
    /\ Len(hg.applied) = 2

\* C3: once the loop over the parents is done, the chain holds, for every
\* parent, exactly one entry among that parent's diffs, and it is the diff
\* with the greatest id, whatever order the service listed the diffs in.
C3_NewestDiffPerParent ==
    \A r \in tenants :
        Past(r, ChainBuilt) =>
            \A i \in 1..Len(parents[r]) :
                LET rev == parents[r][i]
                    own == {DiffPhid(d.id) : d \in Range(api.diffs[rev])}
                    kept == {k \in 1..Len(patches[r]) : patches[r][k].key \in own}
                IN  /\ Cardinality(kept) = 1
                    /\ \A k \in kept :
                          /\ patches[r][k].key = Newest(rev).phid
                          /\ patches[r][k].val[2] = Newest(rev).id
C3_Witness ==
    /\ pc[1] = "loaded"
    /\ \E i \in 1..Len(parents[1]) :
          LET ds == api.diffs[parents[1][i]]
          IN  Len(ds) = 2 /\ ds[1].id > ds[2].id

\* The base the claim C4 describes: the newest diff of the last parent, or the
\* target diff's own base when there is no parent.
ExpectedCandidate(r) ==
    IF api.parents = <<>> THEN diff[r].baseRevision
    ELSE Newest(api.parents[Len(api.parents)]).baseRevision

\* C4: the candidate base reference, before it is validated, is the base field
\* of the selected diff of the last parent, or of the target's own diff when
\* there are no parents; nothing else influences it.
C4_CandidateBase ==
    \A r \in tenants : pc[r] = "identify" => hg_base[r] = ExpectedCandidate(r)
C4_Witness ==
    /\ pc[1] = "identify"
    /\ Len(parents[1]) = 2
    /\ Newest(parents[1][1]).baseRevision # Newest(parents[1][2]).baseRevision
    /\ diff[1].baseRevision # hg_base[1]

\* C5: the revision checked out is the candidate when it is non-null and the
\* working copy identifies it, and central otherwise; a missing base never
\* makes load fail.
C5_FallbackToCentral ==
    \A r \in tenants :
        LET candidate == ExpectedCandidate(r)
            expected == IF candidate = None \/ ~revision_available(candidate)
                        THEN central ELSE candidate
        IN  /\ Past(r, {"raw", "update", "import", "loaded"}) => hg_base[r] = expected
            /\ \A i \in 1..Len(calls) :
                  (calls[i].by = r /\ calls[i].op = "update") => calls[i].arg = expected
            /\ (pc[r] = "failed" /\ err[r] \notin {ApiError("load_parents"),
                    ApiError("search_diffs"), ApiError("load_raw_diff"), IndexError})
                  => \E i \in 1..Len(calls) : calls[i].by = r /\ calls[i].op = "update"
C5_Witness ==
    /\ api.parents = <<>>
    /\ diff[1].baseRevision = None
    /\ pc[1] = "loaded"
    /\ hg.base = central

RepositoryError(e) == e.exc = "AnalysisException" /\ e.code = "mercurial"
UpdatesBy(r) ==
    LET IsUpdate(c) == c.by = r /\ c.op = "update"
    IN  SelectSeq(calls, IsUpdate)

\* C6: a failed checkout ends load with a fatal repository error; load imports
\* no patch after it, and the checkout is attempted once only.
C6_CheckoutFailureFatal ==
    \A r \in tenants :
        /\ Len(UpdatesBy(r)) <= 1
        /\ \A i \in 1..Len(UpdatesBy(r)) :
              ~UpdatesBy(r)[i].ok =>
                  /\ pc[r] = "failed"
                  /\ RepositoryError(err[r])
                  /\ LoadImports(r) = <<>>
                  /\ ~applied[r].done => hg.applied = <<>>
C6_Witness ==
    /\ Len(UpdatesBy(1)) = 1
    /\ ~UpdatesBy(1)[1].ok
    /\ Len(patches[1]) = 3
    /\ pc[1] = "failed"

\* C7: a failed ancestor import ends load with a fatal repository error: the
\* failed import is the last import load makes, so it is not retried and no
\* later ancestor is imported.
C7_ImportFailureFatal ==
    \A r \in tenants :
        \A i \in 1..Len(LoadImports(r)) :
            ~LoadImports(r)[i].ok =>
                /\ i = Len(LoadImports(r))
                /\ pc[r] = "failed"
                /\ RepositoryError(err[r])
C7_Witness ==
    /\ Len(LoadImports(1)) = 1
    /\ ~LoadImports(1)[1].ok
    /\ Len(todo[1]) = 2
    /\ pc[1] = "failed"

\* C8: after a successful load and a successful apply the working copy has
\* seen exactly: one update to the base, one import per ancestor in reverse
\* discovery order, then one import of the target patch; a failed target
\* import is a fatal repository error and is not tried again.
C8_OperationSequence ==
    \A r \in tenants :
        /\ (pc[r] = "loaded" /\ applied[r].done /\ applied[r].exc = NoErr) =>
              LET order == DropRepeats(Reverse(Phids(Discovery)))
                  ops == Mutations(r)
              IN  /\ Len(ops) = Len(order) + 2
                  /\ \A i \in 1..Len(ops) : ops[i].ok
                  /\ ops[1].op = "update" /\ ops[1].arg = hg_base[r]
                  /\ \A i \in 1..Len(order) :
                        ops[i + 1].op = "import" /\ ops[i + 1].msg = order[i]
                  /\ ops[Len(ops)].op = "import"
                  /\ ops[Len(ops)].arg = RawDiff(diff[r].id)
        /\ \A i \in 1..Len(Mutations(r)) :
              (Mutations(r)[i].msg = AnalyzedMsg /\ ~Mutations(r)[i].ok) =>
                  /\ i = Len(Mutations(r))
                  /\ RepositoryError(applied[r].exc)

\* C9: every fatal repository error names the failed operation and the
\* identifier involved: the base reference for a checkout, the ancestor's diff
\* phid for an ancestor import, the target's diff phid for the target import.
C9_ErrorsNameIdentifier ==
    \A r \in tenants :
        /\ RepositoryError(err[r]) =>
              \/ err[r].message = <<"Failed to update to revision", hg_base[r]>>
              \/ /\ todo[r] # <<>>
                 /\ err[r].message = <<"Failed to import parent patch", Head(todo[r]).key>>
        /\ RepositoryError(applied[r].exc) =>
              /\ Len(applied[r].exc.message) = 2
              /\ applied[r].exc.message[2] = diff[r].phid

\* The lines of [line, line + count) that the mapping stores for the path.
SharedLines(modified, issue) ==
    IF issue.path \in DOMAIN modified
    THEN {n \in Range(modified[issue.path]) :
            issue.line <= n /\ n < issue.line + issue.nb_lines}
    ELSE {}

\* What C10 says of a record on which contains has just returned.
ContainsAnswer(r) ==
    result[r].op = "contains" =>
        /\ result[r].exc = NoErr
        /\ result[r].ret \in {"True", "False"}
        /\ result[r].ret = "True" <=> SharedLines(lines[r], result[r].issue) # {}
        /\ result[r].issue.nb_lines = 0 => result[r].ret = "False"
        /\ result[r].issue.path \notin DOMAIN lines[r] => result[r].ret = "False"

\* C10: contains returns true exactly when the path is a key of the mapping
\* and [line, line + count) shares a line with the set stored for it; so it
\* returns false for a count of 0 and for a path that is not a key; it raises
\* nothing and leaves the record as it was.
C10_ContainsIffIntersects ==
    /\ [](\A r \in tenants : ContainsAnswer(r))
    /\ [][\A r \in tenants :
            result'[r].op = "contains" =>
                /\ ContainsAnswer(r)'
                /\ lines' = lines /\ files' = files /\ patch' = patch
                /\ improvement_patches' = improvement_patches]_vars
C10_Witness ==
    /\ result[1].op = "contains"
    /\ result[1].ret = "True"
    /\ result[1].issue.nb_lines = 2
    /\ Cardinality(SharedLines(lines[1], result[1].issue)) = 1
    /\ Cardinality(DOMAIN lines[1]) = 2


\* No analyze_patch has succeeded on r: lines is still the constructor's
\* empty dict (a successful analysis stores at least one key).
NotAnalyzed(r) == DOMAIN lines[r] = {}

\* C11 as stated: contains on a record on which patch analysis has not yet
\* succeeded fails instead of returning a boolean.
C11_ContainsBeforeAnalysisFails ==
    \A r \in tenants :
        (result[r].op = "contains" /\ NotAnalyzed(r)) => result[r].exc # NoErr

\* C11 amended: contains on a record on which patch analysis has not yet
\* succeeded (never called, or called and failed) raises nothing and returns
\* False, whatever the issue.
C11_ContainsBeforeAnalysisFalse ==
    \A r \in tenants :
        (result[r].op = "contains" /\ NotAnalyzed(r)) =>
            /\ result[r].exc = NoErr
            /\ result[r].ret = "False"
            /\ files[r] = {}

C11_Witness ==
    /\ result[1].op = "contains"
    /\ NotAnalyzed(1)
    /\ patch[1] = None
    /\ result[1].issue.path \in Paths
    /\ result[1].issue.nb_lines > 0
    /\ result[1].ret = "False"


\* C12: in every reachable state of a record, whatever calls of analyze_patch
\* (successful or failed), contains and add_improvement_patch were made on
\* it, the elements of files are exactly the keys of lines.
C12_FilesAreKeys ==
    \A r \in tenants : files[r] = DOMAIN lines[r]

C12_Witness ==
    /\ Cardinality(files[1]) = 2
    /\ files[1] = DOMAIN lines[1]
    /\ result[1].op = "analyze_patch"
    /\ result[1].exc # NoErr
    /\ Len(improvement_patches[1]) = 1


\* A patch text analyze_patch cannot use: absent, empty, or one in which the
\* parser finds no file.
Unusable(text) ==
    \/ text = None
    \/ text = EmptyText
    \/ DOMAIN parse_patch(text) = {}

\* C13: analyze_patch fails when the patch text is absent, empty or parses to
\* no file entry (and only then), and a failed call leaves lines and files
\* with the values they had before it.
C13_FailedAnalysisKeepsState ==
    [][\A r \in tenants :
          AnalyzePatch(r) =>
             /\ Unusable(patch[r]) <=> result'[r].exc # NoErr
             /\ Unusable(patch[r]) =>
                   /\ result'[r].exc.exc = "AssertionError"
                   /\ lines'[r] = lines[r]
                   /\ files'[r] = files[r]]_vars

C13_Witness ==
    /\ result[1].op = "analyze_patch"
    /\ result[1].exc = AssertionError("Empty patch")
    /\ patch[1] = EmptyText
    /\ Cardinality(DOMAIN lines[1]) = 2
    /\ files[1] = Paths

\* C14: once analyze_patch has succeeded, the keys of lines are exactly the
\* files of the parsed diff, and the list stored for a file holds the lines
\* parsed as touched and those parsed as added and no other (deleted lines
\* are not in it); a file with no touched and no added line is a key with
\* an empty list.
C14_LinesAreTouchedAndAdded ==
    \A r \in tenants :
        /\ (result[r].op = "analyze_patch" /\ result[r].exc = NoErr) => ~NotAnalyzed(r)
        /\ ~NotAnalyzed(r) =>
              LET parsed == parse_patch(patch[r])
              IN  /\ DOMAIN lines[r] = DOMAIN parsed
                  /\ \A f \in DOMAIN parsed :
                        /\ Range(lines[r][f]) =
                              Range(parsed[f].touched) \cup Range(parsed[f].added)
                        /\ Len(lines[r][f]) =
                              Len(parsed[f].touched) + Len(parsed[f].added)
                        /\ (parsed[f].touched = <<>> /\ parsed[f].added = <<>>)
                              => lines[r][f] = <<>>

C14_Witness ==
    /\ result[1].op = "analyze_patch"
    /\ result[1].exc = NoErr
    /\ DOMAIN lines[1] = Paths
    /\ lines[1]["a.cpp"] = <<>>
    /\ parse_patch(patch[1])["a.cpp"].deleted = <<1>>
    /\ Len(lines[1]["b.py"]) = 2
    /\ parse_patch(patch[1])["b.py"].touched # <<>>
    /\ parse_patch(patch[1])["b.py"].added # <<>>

\* C15: a call of add_improvement_patch with non-empty content appends one
\* entry named <analyzer>-<repr of the revision>.diff at the end of
\* improvement_patches and leaves the earlier entries and their order as they
\* were, also when the analyzer already has an entry; a call with empty
\* content fails and leaves improvement_patches unchanged.
C15_AppendsOneEntry ==
    [][\A r \in tenants : \A analyzer_name \in Analyzers : \A content \in Contents :
          AddImprovementPatch(r, analyzer_name, content) =>
             LET old == improvement_patches[r]
                 new == improvement_patches'[r]
             IN  IF content = ""
                 THEN /\ new = old
                      /\ result'[r].exc.exc = "AssertionError"
                 ELSE /\ result'[r].exc = NoErr
                      /\ Len(new) = Len(old) + 1
                      /\ SubSeq(new, 1, Len(old)) = old
                      /\ new[Len(new)].analyzer = analyzer_name
                      /\ new[Len(new)].content = content
                      /\ new[Len(new)].name =
                            <<analyzer_name, "-", diff[r].phid, ".diff">>]_vars

C15_Witness ==
    /\ Len(improvement_patches[1]) = 2
    /\ improvement_patches[1][1].analyzer = improvement_patches[1][2].analyzer
    /\ improvement_patches[1][1].name = improvement_patches[1][2].name
    /\ improvement_patches[1][1].content # improvement_patches[1][2].content
    /\ result[1].op = "add_improvement_patch"
    /\ result[1].exc # NoErr


\* The calls object r made on the review service.
ServiceCalls(r) ==
    LET ToService(c) ==
          c.by = r /\ c.op \in {"search_diffs", "load_revision", "load_parents",
                                 "load_raw_diff"}
    IN  SelectSeq(calls, ToService)

\* C16: constructing a PhabricatorRevision from a description that does not
\* match the diff-phid pattern fails before any call on the review service;
\* from a description that matches, construction fails when the diff search
\* returns no diff or more than one, and load_revision is not called then.
C16_ConstructionFailures ==
    \A r \in tenants :
        /\ err[r] = InvalidDescription => (pc[r] = "invalid" /\ ServiceCalls(r) = <<>>)
        /\ (pc[r] # "new" /\ err[r] # InvalidDescription) =>
              /\ ServiceCalls(r) # <<>>
              /\ ServiceCalls(r)[1].op = "search_diffs"
              /\ RegexMatch(ServiceCalls(r)[1].arg)
        /\ (pc[r] \notin {"new", "invalid"}) =>
              /\ Len(api.found) = 1
              /\ diff[r] = api.found[1]
              /\ Len(ServiceCalls(r)) >= 2
              /\ ServiceCalls(r)[2] =
                    Call(r, "load_revision", diff[r].revisionPHID, None, TRUE)
        /\ (pc[r] # "new" /\ ServiceCalls(r) # <<>> /\ ServiceCalls(r)[1].ok
              /\ Len(api.found) # 1) =>
              /\ pc[r] = "invalid"
              /\ err[r] = NoDiffAvailable(DiffPhid(TargetDiffId))
              /\ Len(ServiceCalls(r)) = 1

C16_Witness ==
    /\ pc[1] = "invalid"
    /\ Len(api.found) = 2
    /\ err[1].exc = "AssertionError"
    /\ Len(calls) = 1
    /\ calls[1].op = "search_diffs"
    /\ calls[1].ok


\* The successful raw-diff fetches of object r.
RawFetched(r) ==
    LET Fetched(c) == c.by = r /\ c.op = "load_raw_diff" /\ c.ok
    IN  SelectSeq(calls, Fetched)
\* How load ends when the review service fails it or a parent has no diff.
ServiceFailures ==
    {ApiError("load_parents"), ApiError("search_diffs"), ApiError("load_raw_diff"),
     IndexError}

\* C17: within a load every call on the review service (load_parents, the
\* diff search of each parent, the raw diff of every chain entry, the
\* target's included) is made before the first call that changes the working
\* copy; so a load that a service call fails, or that finds a parent without
\* a diff, ends with the working copy not checked out and nothing imported.
C17_ServiceBeforeWorkingCopy ==
    \A r \in tenants :
        /\ \A i, j \in 1..Len(calls) :
              (i < j /\ calls[i].by = r /\ calls[j].by = r
                     /\ calls[i].op \in {"update", "import"})
                 => calls[j].op \in {"update", "import"}
        /\ Mutations(r) # <<>> =>
              /\ Len(RawFetched(r)) = Len(patches[r])
              /\ \A i \in 1..Len(patches[r]) : patches[r][i].val[1] = "raw"
              /\ <<"diff", diff[r].id>> \in Range(Args(RawFetched(r)))
        /\ (pc[r] = "failed" /\ err[r] \in ServiceFailures) =>
              /\ Mutations(r) = <<>>
              /\ hg = [base |-> None, applied |-> <<>>]

C17_Witness ==
    /\ pc[1] = "failed"
    /\ err[1] = ApiError("load_raw_diff")
    /\ Len(RawFetched(1)) = 2
    /\ Len(patches[1]) = 3
    /\ hg = [base |-> None, applied |-> <<>>]
    /\ applied[1].done


\* The raw texts of a sequence of diff records.
Texts(ds) == [i \in 1..Len(ds) |-> RawDiff(ds[i].id)]
\* s is an initial part of t.
Prefix(s, t) == Len(s) <= Len(t) /\ s = SubSeq(t, 1, Len(s))
\* Object r's load is past a successful checkout: importing, done, or ended
\* by a failed ancestor import.
CheckedOut(r) ==
    \/ pc[r] \in {"import", "loaded"}
    \/ pc[r] = "failed" /\ err[r].message[1] = "Failed to import parent patch"

\* C18: from a successful checkout on, also in the state a failed ancestor
\* import leaves, the patches imported on top of the base are an initial part
\* of the ancestor sequence in reverse discovery order (the last parent's
\* diff first), each ancestor diff at most once; nothing is rolled back.
C18_ImportedIsPrefix ==
    \A r \in tenants :
        (CheckedOut(r) /\ ~applied[r].done) =>
            /\ hg.base = hg_base[r]
            /\ Prefix(hg.applied, Texts(DropRepeats(Reverse(Discovery))))
            /\ Cardinality(Range(hg.applied)) = Len(hg.applied)
            /\ LET Done(c) == c.ok
               IN  hg.applied = Args(SelectSeq(LoadImports(r), Done))


\* The working copy holds what object r's load prepares: the validated base
\* with every ancestor patch imported on it.
Prepared(r, wc) ==
    /\ wc.base = hg_base[r]
    /\ wc.applied = Texts(Reverse(DropRepeats(Discovery)))
\* Object r's load ended at the checkout or at an ancestor import.
FailedInRepository(r) == pc[r] = "failed" /\ RepositoryError(err[r])
\* The import calls apply made for object r.
ApplyImports(r) ==
    LET ByApply(c) == c.by = r /\ c.op = "import" /\ c.msg = AnalyzedMsg
    IN  SelectSeq(calls, ByApply)

\* C19: self.patch holds the target's patch text from before the checkout is
\* attempted, so it is still there after a load that failed at the checkout
\* or at an ancestor import; apply does not look at how load ended, so called
\* then it imports the target patch on a working copy that is not the
\* prepared one (base and all ancestors).
C19_ApplyAfterFailedLoad ==
    \A r \in tenants :
        /\ (pc[r] \in {"update", "import", "loaded"} \/ FailedInRepository(r)) =>
              patch[r] = RawDiff(diff[r].id)
        /\ (FailedInRepository(r) /\ ~applied[r].done) => ~Prepared(r, hg)
        /\ (FailedInRepository(r) /\ applied[r].done) =>
              /\ applied[r].exc \in {NoErr, TargetImportFailed}
              /\ Len(ApplyImports(r)) = 1
              /\ ApplyImports(r)[1].arg = RawDiff(diff[r].id)
              /\ applied[r].exc = NoErr =>
                    /\ hg.applied # <<>>
                    /\ hg.applied[Len(hg.applied)] = RawDiff(diff[r].id)
                    /\ ~Prepared(r, [hg EXCEPT !.applied =
                                        SubSeq(@, 1, Len(hg.applied) - 1)])

C19_Witness ==
    /\ pc[1] = "failed"
    /\ err[1].message[1] = "Failed to import parent patch"
    /\ applied[1] = [done |-> TRUE, exc |-> NoErr]
    /\ Len(parents[1]) = 2
    /\ Len(hg.applied) = 2
    /\ hg.applied[2] = RawDiff(TargetDiffId)


\* Object r is inside load.
MidLoad(r) == pc[r] \in {"search", "identify", "raw", "update", "import"}
\* Two loads overlapped: one object made a call between the first call of
\* another object's load and that load's end.
Overlapped ==
    \E r, o \in tenants :
        /\ r # o
        /\ \E i, j \in 1..Len(calls) :
              /\ i < j
              /\ calls[i].by = r
              /\ calls[j].by = o
              /\ MidLoad(r) \/ \E k \in (j + 1)..Len(calls) : calls[k].by = r
\* Object r is importing and the working copy is not what its load has built
\* so far: its base with the ancestors it imported.
Disturbed(r) ==
    /\ pc[r] = "import"
    /\ LET Done(c) == c.ok
       IN  hg # [base |-> hg_base[r], applied |-> Args(SelectSeq(LoadImports(r), Done))]
\* Every load returned and the working copy is the prepared one of none.
AllLoadedNonePrepared ==
    /\ \A r \in tenants : pc[r] = "loaded"
    /\ \A r \in tenants : ~Prepared(r, hg)

\* C20: load takes no lock on the working copy. Two loads running on one
\* working copy can reach a state in which a clean checkout of one has
\* discarded ancestors the other imported, and a state in which both have
\* returned successfully while the working copy is base + ancestors of
\* neither; when the loads do not overlap neither state is reachable.
C20_OnlyOverlappingLoadsDisturb ==
    ((\E r \in tenants : Disturbed(r)) \/ AllLoadedNonePrepared) => Overlapped

C20_Witness ==
    /\ AllLoadedNonePrepared
    /\ Overlapped
    /\ \E i, j, k \in 1..Len(calls) :
          /\ i < j /\ j < k
          /\ calls[i].by = 1 /\ calls[i].op = "import" /\ calls[i].ok
          /\ calls[j].by = 2 /\ calls[j].op = "update" /\ calls[j].ok
          /\ calls[k].by = 1 /\ calls[k].op = "import" /\ calls[k].ok

====
